---- MODULE Spec2Model ----
(***************************************************************************)
(* A model of src/src/tuntap.rs (kytan): one Tun device, on the two build   *)
(* targets the file is written for ("linux" = Platform A, "macos" =        *)
(* Platform B).  Strings are sequences of ASCII codes, byte buffers are    *)
(* sequences of 0..255.  A panic unwinds (the default profile): the values *)
(* alive on the stack are dropped, so an owned fs::File is closed.         *)
(***************************************************************************)
EXTENDS Integers, Sequences, FiniteSets, TLC

VARIABLES
    platform,   \* cfg(target_os): "linux" or "macos"
    pc,         \* "running", or "panicked" once a panic! / unwrap / assert! fired
    phase,      \* last lifecycle operation completed on the device:
                \* "Unopened", "Opened" (create), "Configured" (up),
                \* "Operating" (read / write), "Closed" (drop)
    obtained,   \* an OS handle was obtained by create_if
    closes,     \* number of close(2) calls made on that handle
    nonblock,   \* O_NONBLOCK is set on the handle
    name,       \* the u8 passed to Tun::create, -1 before
    if_name,    \* Tun.if_name
    ifr,        \* linux: req.ifr_name after the TUNSETIFF ioctl
    reqUnit,    \* macos: addr.sc_unit handed to connect()
    kernelIf,   \* the name of the interface the kernel instantiated
    upCall,     \* the last call of Tun::up: self_id, the commands run, their outcomes
    wire,       \* the kernel side of the handle: a queue of at most one packet
    op,         \* the last I/O call: "none", "read", "write"
    res,        \* what that call returned to its caller
    osres,      \* what the underlying self.handle.read / write returned
    rbuf,       \* the caller's buffer after the last read
    got,        \* the bytes the OS delivered to the last read
    sent,       \* the payload of the last write the OS accepted
    frame       \* the buffer that write handed to the OS

devVars == <<name, if_name, ifr, reqUnit, kernelIf, nonblock>>
ioVars  == <<wire, op, res, osres, rbuf, got, sent, frame>>
vars    == <<platform, pc, phase, obtained, closes, upCall, devVars, ioVars>>

----------------------------------------------------------------------------
(* Bounds of the model. *)

\* small payload and buffer lengths run over 0..MaxSmallLen
MaxSmallLen == 2
\* large payload lengths run over 1596 - Slack .. 1596 + Slack
Slack == 1
\* a short OS write accepts 0..MaxShortWrite bytes (or the whole buffer)
MaxShortWrite == 5

----------------------------------------------------------------------------
(* Program constants. *)

U8Max == 255
IFNAMSIZ == 16
ScratchLen == 1600
HeaderLen == 4

MTU == <<49, 51, 56, 48>>                              \* "1380"
IFCONFIG == <<105, 102, 99, 111, 110, 102, 105, 103>>  \* "ifconfig"
TUN_PREFIX == <<116, 117, 110>>                        \* "tun"
UTUN_PREFIX == <<117, 116, 117, 110>>                  \* "utun"
NET_PREFIX == <<49, 48, 46, 49, 48, 46, 49, 48, 46>>   \* "10.10.10."
CIDR_SUFFIX == <<47, 50, 52>>                          \* "/24"
PEER_ADDR == <<49, 48, 46, 49, 48, 46, 49, 48, 46, 49>> \* "10.10.10.1"
ARG_MTU == <<109, 116, 117>>                           \* "mtu"
ARG_UP == <<117, 112>>                                 \* "up"
AF_INET_HEADER == <<0, 0, 0, 2>>
AF_INET6_HEADER == <<0, 0, 0, 10>>

----------------------------------------------------------------------------
(* io::Result<usize>, and a panic in place of a return. *)

Ok(n) == [kind |-> "Ok", n |-> n, err |-> "none"]
Err(e) == [kind |-> "Err", n |-> 0, err |-> e]
Panic == [kind |-> "Panic", n |-> 0, err |-> "none"]
NoResult == [kind |-> "None", n |-> 0, err |-> "none"]

Min(a, b) == IF a <= b THEN a ELSE b

\* format!("{}", n) of a u8: decimal digits, no padding
RECURSIVE Decimal(_)
Decimal(n) == IF n < 10 THEN <<48 + n>> ELSE Decimal(n \div 10) \o <<48 + (n % 10)>>

----------------------------------------------------------------------------
(* Tun::create_if *)

\* linux: format!("tun{}", name)
TunName(n) == TUN_PREFIX \o Decimal(n)

\* linux: the [0u8; IFNAMSIZ] buffer with full_name cloned into its front
IfrName(full_name) ==
    [i \in 1..IFNAMSIZ |-> IF i <= Len(full_name) THEN full_name[i] ELSE 0]

\* iter().position(|&r| r == 0): 0-based index of the first zero byte, -1 for None
FirstZero(buf) ==
    IF \E i \in 1..Len(buf) : buf[i] = 0
    THEN (CHOOSE i \in 1..Len(buf) : buf[i] = 0 /\ \A j \in 1..(i - 1) : buf[j] # 0) - 1
    ELSE -1

\* The bytes the kernel may leave behind the terminating zero of ifr_name.
KernelTails == {0, 120}

\* TUNSETIFF on success: the kernel takes the C string in ifr_name as the name of
\* the interface (it holds no "%d") and copies that name, with its terminating
\* zero, back into ifr_name.
KernelSetIff(req, tail) ==
    LET z == FirstZero(req)
        len == IF z < 0 THEN IFNAMSIZ - 1 ELSE z
    IN [i \in 1..IFNAMSIZ |->
            IF i <= len THEN req[i] ELSE IF i = len + 1 THEN 0 ELSE tail]

\* macos: sc_unit: name as u32 + 1 (a u8 widened first: no wrap-around)
ScUnitWrapped(n) == (n + 1) % (U8Max + 1)
ScUnit(n) == n + 1

\* macos: format!("utun{}", name)
UtunName(n) == UTUN_PREFIX \o Decimal(n)

\* connect() on the utun control: the kernel instantiates utun<sc_unit - 1>
KernelUtun(unit) == UTUN_PREFIX \o Decimal(unit - 1)

\* macos sets O_NONBLOCK with fcntl after connect; linux opens /dev/net/tun
\* with read(true).write(true) only
SetsNonBlockAlways(p) == TRUE
SetsNonBlock(p) == p = "macos"

\* A panic before the Tun exists: the stack is unwound and a File obtained so
\* far is dropped (closed once more).
CreatePanics(n, got_handle, explicit_closes) ==
    /\ pc' = "panicked"
    /\ name' = n
    /\ obtained' = got_handle
    /\ closes' = explicit_closes + (IF got_handle THEN 1 ELSE 0)
    /\ UNCHANGED <<platform, phase, upCall, if_name, ifr, reqUnit, kernelIf, nonblock, ioVars>>

CreateLinux(S) ==
    /\ platform = "linux" /\ pc = "running" /\ phase = "Unopened"
    /\ \E n \in S, out \in {"openFail", "ioctlFail", "ok"}, tail \in KernelTails :
        LET full_name == TunName(n)
            back == KernelSetIff(IfrName(full_name), tail)
            size == FirstZero(back)
        IN  IF out = "openFail" \/ Len(full_name) > IFNAMSIZ
            THEN CreatePanics(n, out # "openFail", 0)
            ELSE IF out = "ioctlFail" \/ size < 0
            THEN CreatePanics(n, TRUE, 0)
            ELSE /\ name' = n
                 /\ obtained' = TRUE
                 /\ ifr' = back
                 /\ if_name' = SubSeq(back, 1, size)
                 /\ kernelIf' = SubSeq(back, 1, size)
                 /\ nonblock' = SetsNonBlock(platform)
                 /\ phase' = "Opened"
                 /\ UNCHANGED <<platform, pc, closes, reqUnit, upCall, ioVars>>

CreateMacos(S) ==
    /\ platform = "macos" /\ pc = "running" /\ phase = "Unopened"
    /\ \E n \in S, out \in {"socketFail", "ioctlFail", "connectFail", "fcntlFail", "ok"} :
        IF out = "socketFail" THEN CreatePanics(n, FALSE, 0)
        ELSE IF out = "ioctlFail" THEN CreatePanics(n, TRUE, 1)
        ELSE IF out \in {"connectFail", "fcntlFail"} THEN CreatePanics(n, TRUE, 0)
        ELSE /\ name' = n
             /\ obtained' = TRUE
             /\ reqUnit' = ScUnit(n)
             /\ kernelIf' = KernelUtun(ScUnit(n))
             /\ if_name' = UtunName(n)
             /\ nonblock' = SetsNonBlock(platform)
             /\ phase' = "Opened"
             /\ UNCHANGED <<platform, pc, closes, ifr, upCall, ioVars>>

----------------------------------------------------------------------------
(* The Tun value: its methods take &self / &mut self, so they run only on a  *)
(* value that was created and not yet dropped, in a process still running.  *)

LiveAnyPhase == pc = "running"
Live == pc = "running" /\ phase \in {"Opened", "Configured", "Operating"}

\* A panic inside a method: unwinding drops the Tun, closing its handle.
MethodPanics ==
    /\ pc' = "panicked"
    /\ phase' = "Closed"
    /\ closes' = closes + 1

\* The Tun goes out of scope: fs::File's Drop closes the handle.
Drop ==
    /\ Live
    /\ phase' = "Closed"
    /\ closes' = closes + 1
    /\ UNCHANGED <<platform, pc, obtained, upCall, devVars, ioVars>>

----------------------------------------------------------------------------
(* Tun::up *)

\* How one run of the external command can end.
CmdOutcomes == {"spawnFail", "exit0", "exitNonZero"}

\* process::Command::status().unwrap(): the command could be started
Spawned(o) == o # "spawnFail"

\* assert!(status.success())
SucceededAlways(o) == TRUE
Succeeded(o) == o = "exit0"

\* the first invocation: ifconfig <if_name> <address...>
AddrCmd(p, ifn, self_id) ==
    IF p = "linux"
    THEN <<IFCONFIG, ifn, NET_PREFIX \o Decimal(self_id) \o CIDR_SUFFIX>>
    ELSE <<IFCONFIG, ifn, NET_PREFIX \o Decimal(self_id), PEER_ADDR>>

\* the second invocation: ifconfig <if_name> mtu <MTU> up
MtuCmd(ifn) == <<IFCONFIG, ifn, ARG_MTU, MTU, ARG_UP>>

NoUpCall == [id |-> -1, cmds |-> <<>>, exits |-> <<>>]

Up(S) ==
    /\ Live
    /\ \E self_id \in S, o1 \in CmdOutcomes, o2 \in CmdOutcomes :
        LET c1 == AddrCmd(platform, if_name, self_id)
            c2 == MtuCmd(if_name)
        IN  IF ~(Spawned(o1) /\ Succeeded(o1))
            THEN /\ upCall' = [id |-> self_id, cmds |-> <<c1>>, exits |-> <<o1>>]
                 /\ MethodPanics
            ELSE IF ~(Spawned(o2) /\ Succeeded(o2))
            THEN /\ upCall' = [id |-> self_id, cmds |-> <<c1, c2>>, exits |-> <<o1, o2>>]
                 /\ MethodPanics
            ELSE /\ upCall' = [id |-> self_id, cmds |-> <<c1, c2>>, exits |-> <<o1, o2>>]
                 /\ phase' = "Configured"
                 /\ UNCHANGED <<pc, closes>>
    /\ UNCHANGED <<platform, obtained, devVars, ioVars>>

----------------------------------------------------------------------------
(* The OS handle. The kernel side holds at most one packet: what the last    *)
(* write handed over is what the next read delivers (a loop-back).          *)

\* the byte counts a successful OS write of n bytes may report
AcceptCounts(n) == (0..Min(n, MaxShortWrite)) \cup {n}

\* self.handle.read(&mut b) with Len(b) = cap: the possible outcomes. With no
\* packet queued a blocking handle does not return (no outcome); a
\* non-blocking one fails with EAGAIN. A datagram longer than cap is cut.
HandleRead(cap) ==
    {[r |-> Err("EIO"), data |-> <<>>, q |-> wire]}
    \cup (IF wire = <<>>
          THEN (IF nonblock THEN {[r |-> Err("EAGAIN"), data |-> <<>>, q |-> wire]} ELSE {})
          ELSE LET n == Min(Len(wire[1]), cap)
               IN {[r |-> Ok(n), data |-> SubSeq(wire[1], 1, n), q |-> <<>>]})

\* self.handle.write(&data): the possible outcomes. With the kernel queue full a
\* blocking handle does not return; a non-blocking one fails with EAGAIN.
HandleWrite(data) ==
    {[r |-> Err("EIO"), q |-> wire]}
    \cup (IF wire # <<>>
          THEN (IF nonblock THEN {[r |-> Err("EAGAIN"), q |-> wire]} ELSE {})
          ELSE {[r |-> Ok(w), q |-> <<SubSeq(data, 1, w)>>] : w \in AcceptCounts(Len(data))})

\* the caller's buffer before a read: blen bytes of a filler value, 0xAA
Fresh(blen) == [i \in 1..blen |-> 170]

\* dst[..Len(src)].clone_from_slice(src)
CopyInto(dst, src) == [i \in 1..Len(dst) |-> IF i <= Len(src) THEN src[i] ELSE dst[i]]

\* linux read: self.handle.read(buf), the OS fills the caller's buffer
LinuxRead(buf, o) == [res |-> o.r, buf |-> CopyInto(buf, o.data)]

\* macos read: &data[4..len], the bytes behind the 4-byte header
StripHeaderOffByOne(data, len) == SubSeq(data, HeaderLen, len - 1)
StripHeader(data, len) == SubSeq(data, HeaderLen + 1, len)

\* macos read, after self.handle.read(&mut data) returned o.
\* len - 4 with len < 4 overflows usize: a panic with overflow checks, and
\* without them a wrapped end index beyond any slice, a panic in buf[..end].
\* buf[..len - 4] panics as well when the caller's buffer is shorter.
MacosRead(buf, o) ==
    IF o.r.kind = "Err" THEN [res |-> o.r, buf |-> buf]
    ELSE LET len == o.r.n
         IN IF len < HeaderLen \/ len - HeaderLen > Len(buf)
            THEN [res |-> Panic, buf |-> buf]
            ELSE [res |-> Ok(IF len > HeaderLen THEN len - HeaderLen ELSE 0),
                  buf |-> CopyInto(buf, StripHeader(o.data, len))]

\* macos write: let ip_v = buf[0] & 0xf
IpV(buf) == buf[1] % 16

\* macos write: the header chosen, then data.write_all(buf)
MacosFrame(buf) ==
    (IF IpV(buf) = 6 THEN AF_INET6_HEADER ELSE AF_INET_HEADER) \o buf

\* macos write: Ok(if len > 4 { len - 4 } else { 0 })
PayloadCountUnguarded(len) == len - HeaderLen
PayloadCount(len) == IF len > HeaderLen THEN len - HeaderLen ELSE 0

MacosWriteResult(r) == IF r.kind = "Ok" THEN Ok(PayloadCount(r.n)) ELSE r

\* what a method leaves behind: a panic unwinds, a return leaves the device in use
AfterCall(r) ==
    IF r.kind = "Panic"
    THEN MethodPanics
    ELSE /\ phase' = "Operating"
         /\ UNCHANGED <<pc, closes>>

\* impl Read for Tun: read(&mut self, buf), buf of a length drawn from B
TunRead(B) ==
    /\ Live
    /\ \E blen \in B :
        \E o \in HandleRead(IF platform = "linux" THEN blen ELSE ScratchLen) :
            LET out == IF platform = "linux"
                       THEN LinuxRead(Fresh(blen), o)
                       ELSE MacosRead(Fresh(blen), o)
            IN  /\ op' = "read"
                /\ osres' = o.r
                /\ got' = o.data
                /\ wire' = o.q
                /\ res' = out.res
                /\ rbuf' = out.buf
                /\ AfterCall(out.res)
    /\ UNCHANGED <<platform, obtained, upCall, devVars, sent, frame>>

\* impl Write for Tun: write(&mut self, buf), buf drawn from P
TunWrite(P) ==
    /\ Live
    /\ \E buf \in P :
        IF platform = "macos" /\ Len(buf) = 0
        THEN \* buf[0] on an empty slice: index out of bounds
             /\ op' = "write"
             /\ res' = Panic
             /\ osres' = NoResult
             /\ rbuf' = <<>>
             /\ got' = <<>>
             /\ MethodPanics
             /\ UNCHANGED <<wire, sent, frame>>
        ELSE LET data == IF platform = "linux" THEN buf ELSE MacosFrame(buf)
             IN \E o \in HandleWrite(data) :
                 LET r == IF platform = "linux" THEN o.r ELSE MacosWriteResult(o.r)
                 IN  /\ op' = "write"
                     /\ osres' = o.r
                     /\ res' = r
                     /\ wire' = o.q
                     /\ sent' = IF o.r.kind = "Ok" THEN buf ELSE sent
                     /\ frame' = IF o.r.kind = "Ok" THEN data ELSE frame
                     /\ rbuf' = <<>>
                     /\ got' = <<>>
                     /\ AfterCall(r)
    /\ UNCHANGED <<platform, obtained, upCall, devVars>>

----------------------------------------------------------------------------
(* Inputs. *)

\* payload bytes: the first byte as given, the rest a pattern that differs
\* from byte to byte and from the filler of Fresh
PayloadByte(b, i) == IF i = 1 THEN b ELSE (b + 7 * i) % 169
MkPayload(b, n) == [i \in 1..n |-> PayloadByte(b, i)]

\* first bytes: 0x45 (IPv4, IHL 5), 0x60 (IPv6), 0x46 (IPv4, IHL 6), 0x66 (IPv6)
FirstBytes == {69, 96, 70, 102}

SmallPayloads == {MkPayload(b, n) : b \in FirstBytes, n \in 0..MaxSmallLen}
LargeLens == (ScratchLen - HeaderLen - Slack)..(ScratchLen - HeaderLen + Slack)
LargePayloads == {MkPayload(69, n) : n \in LargeLens}
Payloads == SmallPayloads \cup LargePayloads
BufLens == (0..MaxSmallLen) \cup {ScratchLen - HeaderLen, ScratchLen}

\* the inputs of the life-cycle specification
LifeIndexes == {5, 255}
LifeSelfIds == {7}
LifePayloads == {MkPayload(69, 1), MkPayload(96, MaxSmallLen)}
LifeBufLens == {0, MaxSmallLen}

AllU8 == 0..U8Max

----------------------------------------------------------------------------
(* Specifications. *)

Init ==
    /\ platform \in {"linux", "macos"}
    /\ pc = "running"
    /\ phase = "Unopened"
    /\ obtained = FALSE
    /\ closes = 0
    /\ nonblock = FALSE
    /\ name = -1
    /\ if_name = <<>>
    /\ ifr = <<>>
    /\ reqUnit = 0
    /\ kernelIf = <<>>
    /\ upCall = NoUpCall
    /\ wire = <<>>
    /\ op = "none"
    /\ res = NoResult
    /\ osres = NoResult
    /\ rbuf = <<>>
    /\ got = <<>>
    /\ sent = <<>>
    /\ frame = <<>>

\* the whole public interface, on small inputs
Next ==
    \/ CreateLinux(LifeIndexes)
    \/ CreateMacos(LifeIndexes)
    \/ Up(LifeSelfIds)
    \/ TunRead(LifeBufLens)
    \/ TunWrite(LifePayloads)
    \/ Drop

Spec == Init /\ [][Next]_vars

\* packet I/O on an opened device, on payloads around every length the codec
\* distinguishes
NextIO ==
    \/ CreateLinux({5})
    \/ CreateMacos({5})
    \/ TunRead(BufLens)
    \/ TunWrite(Payloads)

SpecIO == Init /\ [][NextIO]_vars

\* creation for every index, configured with a few self ids
NameSelfIds == {7, 255}

NextNames ==
    \/ CreateLinux(AllU8)
    \/ CreateMacos(AllU8)
    \/ Up(NameSelfIds)
    \/ Drop

SpecNames == Init /\ [][NextNames]_vars

\* configuration for every self id, on a few indexes
NextUp ==
    \/ CreateLinux(LifeIndexes)
    \/ CreateMacos(LifeIndexes)
    \/ Up(AllU8)
    \/ Drop

SpecUp == Init /\ [][NextUp]_vars

----------------------------------------------------------------------------
(* Properties of the packet codec, checked under SpecIO. *)

MacosWriteOk == platform = "macos" /\ op = "write" /\ osres.kind = "Ok"
MacosReadOk == platform = "macos" /\ op = "read" /\ osres.kind = "Ok"

\* C1: macos write picks the 4-byte header from the high nibble of the payload's
\* first byte: the IPv6 header when (first byte >> 4) = 6, the IPv4 header
\* otherwise.
C1_HeaderFromHighNibble ==
    MacosWriteOk =>
        SubSeq(frame, 1, HeaderLen) =
            (IF sent[1] \div 16 = 6 THEN AF_INET6_HEADER ELSE AF_INET_HEADER)

\* C2: macos read: when the OS read succeeds with fewer than 4 bytes, read
\* returns Ok(0) and the caller's buffer is as it was.
C2_ShortReadReportsZero ==
    (MacosReadOk /\ osres.n < HeaderLen) =>
        /\ res = Ok(0)
        /\ rbuf = Fresh(Len(rbuf))
        /\ pc = "running"

\* C3: macos round trip: when the buffer a write of a payload of 1..1596 bytes
\* handed to the OS comes back unchanged to a read whose buffer is at least as
\* long as the payload, the read returns the payload's length and the buffer
\* starts with the payload; and a write the OS accepted whole returns the
\* payload's length, not the frame's.
C3_RoundTrip ==
    /\ (/\ MacosReadOk
        /\ got = frame
        /\ Len(sent) \in 1..(ScratchLen - HeaderLen)
        /\ Len(rbuf) >= Len(sent))
       => /\ res = Ok(Len(sent))
          /\ SubSeq(rbuf, 1, Len(sent)) = sent
          /\ \A i \in (Len(sent) + 1)..Len(rbuf) : rbuf[i] = Fresh(Len(rbuf))[i]
    /\ (MacosWriteOk /\ osres.n = Len(frame)) => res = Ok(Len(sent))

\* C3 witness: a payload of the largest length, 1596, came back whole
C3_Witness ==
    /\ MacosReadOk
    /\ got = frame
    /\ Len(sent) = ScratchLen - HeaderLen
    /\ res = Ok(Len(sent))
    /\ SubSeq(rbuf, 1, Len(sent)) = sent

\* C4: macos write returns max(0, w - 4) for the w bytes the OS write accepted:
\* never negative, 0 for w <= 4, w - 4 otherwise, at most the payload's length.
C4_WriteCount ==
    MacosWriteOk =>
        /\ osres.n \in 0..(Len(sent) + HeaderLen)
        /\ res.kind = "Ok"
        /\ res.n >= 0
        /\ (osres.n <= 4 => res.n = 0)
        /\ (osres.n > 4 => res.n = osres.n - 4)
        /\ res.n <= Len(sent)

\* C4 witness: the OS accepted 2 bytes, fewer than the header
C4_Witness == MacosWriteOk /\ osres.n = 2 /\ res = Ok(0) /\ Len(sent) > 0

\* C7: every read and write returns a byte count or the OS error of the
\* underlying call; none panics.
C7_ReturnsCountOrError ==
    op \in {"read", "write"} =>
        /\ res.kind \in {"Ok", "Err"}
        /\ (osres.kind = "Err" => res = osres)
        /\ pc = "running"

----------------------------------------------------------------------------
(* Properties of the life cycle, checked under Spec. *)

\* C5: the OS handle create_if obtained is closed exactly once on every exit
\* path: never closed twice, and closed once when the device is gone or the
\* process panicked.
C5_ClosedExactlyOnce ==
    /\ closes <= (IF obtained THEN 1 ELSE 0)
    /\ (obtained /\ (pc = "panicked" \/ phase = "Closed")) => closes = 1

\* C6 as stated: no read or write returns a would-block error.
C6_NeverWouldBlock == res.err # "EAGAIN"

\* C6 amended: on Platform A the handle is blocking and no read or write
\* returns a would-block error; on Platform B create sets the handle
\* non-blocking, and a would-block error is returned only by a read that found
\* no packet queued or a write that found the kernel queue full.
C6_BlockingOnLinuxOnly ==
    /\ platform = "linux" => (~nonblock /\ res.err # "EAGAIN")
    /\ (platform = "macos" /\ phase # "Unopened") => nonblock
    /\ (res.err = "EAGAIN" /\ op = "read") => wire = <<>>
    /\ (res.err = "EAGAIN" /\ op = "write") => wire # <<>>

\* C6 witness: a linux device whose last read returned a packet and whose
\* queue is empty: the next read waits
C6_Witness ==
    /\ platform = "linux"
    /\ phase = "Operating"
    /\ op = "read"
    /\ res.kind = "Ok"
    /\ wire = <<>>

Rank(ph) ==
    CASE ph = "Unopened" -> 0
      [] ph = "Opened" -> 1
      [] ph = "Configured" -> 2
      [] ph = "Operating" -> 3
      [] ph = "Closed" -> 4

LiveRank(ph) ==
    CASE ph = "Unopened" -> 0
      [] ph \in {"Opened", "Configured", "Operating"} -> 1
      [] ph = "Closed" -> 2

\* C9 as stated: the device moves through Unopened, Opened, Configured,
\* Operating, Closed without a backward step, and a read or write happens only
\* once up has completed.
C9_MonotonicFivePhases ==
    [][/\ Rank(phase') >= Rank(phase)
       /\ (phase' = "Operating" => phase \in {"Configured", "Operating"})]_vars

\* C9 amended: the device moves Unopened -> live -> Closed without a backward
\* step; before create has returned nothing but create happens, and once the
\* device is closed or the process has panicked nothing happens any more.
C9_MonotonicLiveness ==
    [][/\ LiveRank(phase') >= LiveRank(phase)
       /\ (phase = "Unopened" => UNCHANGED <<upCall, ioVars>>)
       /\ ((phase = "Closed" \/ pc = "panicked") => UNCHANGED vars)]_vars

\* C9 witness: a device that was configured, used for I/O and then dropped
C9_Witness ==
    /\ phase = "Closed"
    /\ pc = "running"
    /\ upCall.id >= 0
    /\ op = "write"
    /\ closes = 1

----------------------------------------------------------------------------
(* Names and configuration commands, checked under SpecNames and SpecUp. *)

\* the value of a string of decimal digits
RECURSIVE DecVal(_)
DecVal(s) ==
    IF s = <<>> THEN 0
    ELSE 10 * DecVal(SubSeq(s, 1, Len(s) - 1)) + (s[Len(s)] - 48)

\* s is the decimal numeral of n: digits only, no leading zero
IsNumeral(s, n) ==
    /\ Len(s) >= 1
    /\ \A i \in 1..Len(s) : s[i] \in 48..57
    /\ (Len(s) > 1 => s[1] # 48)
    /\ DecVal(s) = n

\* s is prefix, then the numeral of n, then suffix
IsNamed(s, prefix, n, suffix) ==
    /\ Len(s) > Len(prefix) + Len(suffix)
    /\ SubSeq(s, 1, Len(prefix)) = prefix
    /\ SubSeq(s, Len(s) - Len(suffix) + 1, Len(s)) = suffix
    /\ IsNumeral(SubSeq(s, Len(prefix) + 1, Len(s) - Len(suffix)), n)

\* C8: up runs ifconfig at most twice: first the address assignment with
\* 10.10.10.<self_id> (/24 on linux, then peer 10.10.10.1 on macos), then
\* "mtu 1380 up" on the same interface, the second only after the first exited
\* with status zero; a command that cannot be started or exits non-zero is
\* fatal, and the device is not configured.
C8_BringUpOrder ==
    upCall.id >= 0 =>
        LET c == upCall.cmds
            e == upCall.exits
        IN  /\ Len(c) \in {1, 2}
            /\ Len(e) = Len(c)
            /\ c[1][1] = IFCONFIG
            /\ c[1][2] = if_name
            /\ platform = "linux" =>
                   /\ Len(c[1]) = 3
                   /\ IsNamed(c[1][3], NET_PREFIX, upCall.id, CIDR_SUFFIX)
            /\ platform = "macos" =>
                   /\ Len(c[1]) = 4
                   /\ IsNamed(c[1][3], NET_PREFIX, upCall.id, <<>>)
                   /\ c[1][4] = PEER_ADDR
            /\ Len(c) = 2 =>
                   /\ e[1] = "exit0"
                   /\ c[2] = <<IFCONFIG, if_name, ARG_MTU, <<49, 51, 56, 48>>, ARG_UP>>
            /\ e[1] # "exit0" => Len(c) = 1
            /\ (\E k \in 1..Len(e) : e[k] # "exit0") =>
                   (pc = "panicked" /\ phase # "Configured")
            /\ phase = "Configured" => e = <<"exit0", "exit0">>

\* C8 witness: the second command was run and exited non-zero
C8_Witness ==
    /\ upCall.id = U8Max
    /\ upCall.exits = <<"exit0", "exitNonZero">>
    /\ Len(upCall.cmds) = 2
    /\ pc = "panicked"

\* C10: after a successful create the interface name is "tun<index>" on linux,
\* the bytes of the kernel-written ifr_name before its first zero, and
\* "utun<index>" on macos, where the kernel was asked for unit index + 1; it
\* is the name of the interface the kernel made and the name every
\* configuration command is given.
C10_InterfaceName ==
    phase # "Unopened" =>
        /\ name \in 0..U8Max
        /\ platform = "linux" =>
               /\ IsNamed(if_name, TUN_PREFIX, name, <<>>)
               /\ Len(if_name) < IFNAMSIZ
               /\ \A i \in 1..Len(if_name) : ifr[i] = if_name[i] /\ ifr[i] # 0
               /\ ifr[Len(if_name) + 1] = 0
        /\ platform = "macos" =>
               /\ IsNamed(if_name, UTUN_PREFIX, name, <<>>)
               /\ reqUnit = name + 1
        /\ kernelIf = if_name
        /\ \A k \in 1..Len(upCall.cmds) : upCall.cmds[k][2] = if_name

\* C10 witness: index 255 on macos, configured
C10_Witness ==
    /\ platform = "macos"
    /\ name = U8Max
    /\ phase = "Configured"
    /\ if_name = <<117, 116, 117, 110, 50, 53, 53>>

====
